---- MODULE Spec2Model ----
(***************************************************************************)
(* Model of the DEBUG-GUI dashboard: the threshold classifier of           *)
(* physical_parameters.py, the external series importer                    *)
(* (process_external_data) and the render passes of the Streamlit scripts  *)
(* that use them.                                                          *)
(*                                                                         *)
(* Measured values and thresholds are fixed-point numbers in tenths of the *)
(* parameter's unit (4.8 V is 48), so that the Voltage thresholds are      *)
(* integers.  Timestamps are seconds since 2024-01-01 00:00:00.            *)
(***************************************************************************)
EXTENDS Integers, Sequences, FiniteSets

VARIABLES
    PHYSICAL_PARAMETERS,  \* the module-level configuration table
    quicksort_ties,       \* how this build's quicksort leaves equal keys
    script,               \* the program that runs in this process
    csv,                  \* the CSV file the user has on disk
    uploaded_data,        \* the file held by the st.file_uploader widget
    parameters,           \* the `parameters` dict of the last render pass
    displayed,            \* what the last render pass showed per parameter
    message,              \* the st.error / st.warning / st.success of the pass
    call,                 \* the last direct get_status_color call
    lastOp,               \* the operation that produced this state
    import_call,          \* the last direct process_external_data call
    displayed_before,     \* what the render pass before the last one showed
    session_state,        \* st.session_state: the values of the keyed widgets
    dashboard,            \* the panels the last render pass showed
    ssl_data              \* the table generate_ssl_data returned last

vars == << PHYSICAL_PARAMETERS, quicksort_ties, script, csv, uploaded_data,
           parameters, displayed, message, call, lastOp, import_call,
           displayed_before,
           session_state, dashboard, ssl_data >>

---------------------------------------------------------------------------
(* Bounds of the model *)

\* Longest CSV file (number of data rows).
MaxRows == 3

\* Widest distance, in tenths, of a classified value from a threshold.
MaxStep == 1

\* Number of distinct outcomes of the random sample generation.
MaxSeed == 3
MaxSslRows == 2

---------------------------------------------------------------------------
(* physical_parameters.py *)

\* Python's None.
None == [None |-> TRUE]

\* Mutant of InitialParameters: the Voltage normal_max entered as 5.6.
InitialParameters_typo ==
    [ Temperature |->
        [ unit |-> "degC", normal_min |-> 150, normal_max |-> 350,
          warning_min |-> 100, warning_max |-> 400, icon |-> "thermometer",
          mean |-> 250, std_dev |-> 50 ],
      Voltage |->
        [ unit |-> "V", normal_min |-> 48, normal_max |-> 56,
          warning_min |-> 45, warning_max |-> 55, icon |-> "bolt",
          mean |-> 50, std_dev |-> 3 ],
      Humidity |->
        [ unit |-> "%", normal_min |-> 300, normal_max |-> 600,
          warning_min |-> 200, warning_max |-> 700, icon |-> "droplet",
          mean |-> 450, std_dev |-> 100 ],
      Resistance |->
        [ unit |-> "Ohm", normal_min |-> 950, normal_max |-> 1050,
          warning_min |-> 900, warning_max |-> 1100, icon |-> "Ohm",
          mean |-> 1000, std_dev |-> 50 ] ]

\* PHYSICAL_PARAMETERS as the module defines it (values in tenths).
InitialParameters ==
    [ Temperature |->
        [ unit |-> "degC", normal_min |-> 150, normal_max |-> 350,
          warning_min |-> 100, warning_max |-> 400, icon |-> "thermometer",
          mean |-> 250, std_dev |-> 50 ],
      Voltage |->
        [ unit |-> "V", normal_min |-> 48, normal_max |-> 52,
          warning_min |-> 45, warning_max |-> 55, icon |-> "bolt",
          mean |-> 50, std_dev |-> 3 ],
      Humidity |->
        [ unit |-> "%", normal_min |-> 300, normal_max |-> 600,
          warning_min |-> 200, warning_max |-> 700, icon |-> "droplet",
          mean |-> 450, std_dev |-> 100 ],
      Resistance |->
        [ unit |-> "Ohm", normal_min |-> 950, normal_max |-> 1050,
          warning_min |-> 900, warning_max |-> 1100, icon |-> "Ohm",
          mean |-> 1000, std_dev |-> 50 ] ]

\* ALL_PARAMETER_NORMS of norms_config.py (values in tenths).
ALL_PARAMETER_NORMS ==
    [ Temperature |->
        [ normal_min |-> 150, normal_max |-> 350,
          warning_min |-> 100, warning_max |-> 400,
          unit |-> "degC", icon |-> "thermometer" ],
      Voltage |->
        [ normal_min |-> 48, normal_max |-> 52,
          warning_min |-> 45, warning_max |-> 55,
          unit |-> "V", icon |-> "bolt" ],
      Humidity |->
        [ normal_min |-> 300, normal_max |-> 600,
          warning_min |-> 200, warning_max |-> 700,
          unit |-> "%", icon |-> "droplet" ],
      Resistance |->
        [ normal_min |-> 950, normal_max |-> 1050,
          warning_min |-> 900, warning_max |-> 1100,
          unit |-> "Ohm", icon |-> "Ohm" ] ]

STATUS_COLORS ==
    [ normal |-> "#28a745", warning |-> "#ffc107",
      critical |-> "#dc3545", inactive |-> "#6c757d" ]

\* What an uncaught exception leaves in place of a result.
KeyError == "KeyError"

\* Mutant of get_parameter_thresholds: PHYSICAL_PARAMETERS[parameter_name],
\* which raises for a name that is not a key.
get_parameter_thresholds_subscript(parameter_name) ==
    IF parameter_name \in DOMAIN PHYSICAL_PARAMETERS
    THEN PHYSICAL_PARAMETERS[parameter_name]
    ELSE [raised |-> KeyError]

\* PHYSICAL_PARAMETERS.get(parameter_name): the entry, or None.
get_parameter_thresholds(parameter_name) ==
    IF parameter_name \in DOMAIN PHYSICAL_PARAMETERS
    THEN PHYSICAL_PARAMETERS[parameter_name]
    ELSE None

get_all_parameters == PHYSICAL_PARAMETERS

\* Python truth value of a dict or None.
Truthy(x) == x # None /\ DOMAIN x # {}

\* lo_key <= value <= hi_key on the entry `param`, evaluated left to right
\* as a chained comparison: "True", "False", or KeyError for a missing key.
ChainedLe(param, lo_key, value, hi_key) ==
    IF lo_key \notin DOMAIN param THEN KeyError
    ELSE IF ~(param[lo_key] <= value) THEN "False"
    ELSE IF hi_key \notin DOMAIN param THEN KeyError
    ELSE IF value <= param[hi_key] THEN "True" ELSE "False"

\* Mutants of get_status_color.
get_status_color_warning_first(value, parameter_name) ==
    LET param == get_parameter_thresholds(parameter_name)
    IN  IF ~Truthy(param) THEN STATUS_COLORS["inactive"]
        ELSE IF ChainedLe(param, "warning_min", value, "warning_max") = "True"
             THEN STATUS_COLORS["warning"]
        ELSE IF ChainedLe(param, "normal_min", value, "normal_max") = "True"
             THEN STATUS_COLORS["normal"]
        ELSE STATUS_COLORS["critical"]

get_status_color_half_open(value, parameter_name) ==
    LET param == get_parameter_thresholds(parameter_name)
    IN  IF ~Truthy(param) THEN STATUS_COLORS["inactive"]
        ELSE IF param["normal_min"] <= value /\ value < param["normal_max"]
             THEN STATUS_COLORS["normal"]
        ELSE IF param["warning_min"] <= value /\ value <= param["warning_max"]
             THEN STATUS_COLORS["warning"]
        ELSE STATUS_COLORS["critical"]

get_status_color_no_critical(value, parameter_name) ==
    LET param == get_parameter_thresholds(parameter_name)
    IN  IF ~Truthy(param) THEN STATUS_COLORS["inactive"]
        ELSE IF ChainedLe(param, "normal_min", value, "normal_max") = "True"
             THEN STATUS_COLORS["normal"]
        ELSE STATUS_COLORS["warning"]

\* The warning band tested without its two bounds.
get_status_color_open_warning(value, parameter_name) ==
    LET param == get_parameter_thresholds(parameter_name)
    IN  IF ~Truthy(param) THEN STATUS_COLORS["inactive"]
        ELSE IF ChainedLe(param, "normal_min", value, "normal_max") = "True"
             THEN STATUS_COLORS["normal"]
        ELSE IF param["warning_min"] < value /\ value < param["warning_max"]
             THEN STATUS_COLORS["warning"]
        ELSE STATUS_COLORS["critical"]

\* get_status_color(value, parameter_name): the colour of the status class.
get_status_color(value, parameter_name) ==
    LET param  == get_parameter_thresholds(parameter_name)
        normal == ChainedLe(param, "normal_min", value, "normal_max")
        warn   == ChainedLe(param, "warning_min", value, "warning_max")
    IN  IF ~Truthy(param) THEN STATUS_COLORS["inactive"]
        ELSE IF normal = KeyError THEN KeyError
        ELSE IF normal = "True" THEN STATUS_COLORS["normal"]
        ELSE IF warn = KeyError THEN KeyError
        ELSE IF warn = "True" THEN STATUS_COLORS["warning"]
        ELSE STATUS_COLORS["critical"]

---------------------------------------------------------------------------
(* The uploaded table *)

REQUIRED_COLUMNS == {"Timestamp", "Parameter", "Value"}

\* 2024-01-01 10:00:00 and 10:05:00.
Timestamps == {36000, 36300}

\* Parameter cells: two configured names and one that is not configured.
ParameterCells == {"Temperature", "Voltage", "UnknownParam"}

\* Value cells: 18.0 and 20.0.
ValueCells == {180, 200}

Rows == [Timestamp : Timestamps, Parameter : ParameterCells, Value : ValueCells]

RowSeqs == UNION {[1..n -> Rows] : n \in 0..MaxRows}

\* A table, as a CSV file holds it and as a DataFrame: its column names
\* and its rows in index order.
DataFrame(rows) == [columns |-> REQUIRED_COLUMNS, rows |-> rows]

\* A file of zero bytes: no header line and no rows.
EmptyFile == [columns |-> {}, rows |-> <<>>]

\* Timestamp cells that are not written as YYYY-MM-DD HH:MM:SS.  A cell
\* that no date parser accepts ("yesterday"):
Unparseable == 0 - 1

\* An empty cell, which read_csv gives as NaN and to_datetime as NaT:
NaT == 0 - 2

\* The second s written in another form that pandas accepts
\* (2024/01/01 10:00:00) is the cell OtherForm + s.
OtherForm == 1000000

IsExpectedForm(cell) == 0 <= cell /\ cell < OtherForm

Reverse(s) == [i \in 1..Len(s) |-> s[Len(s) + 1 - i]]

\* Series.unique(): the distinct values in order of first appearance.
RECURSIVE unique(_)
unique(s) ==
    IF s = <<>> THEN <<>>
    ELSE LET u == unique(SubSeq(s, 1, Len(s) - 1))
             x == s[Len(s)]
         IN  IF \E i \in DOMAIN u : u[i] = x THEN u ELSE Append(u, x)

Column(rows, name) == [i \in 1..Len(rows) |-> rows[i][name]]

\* Insertion of r behind every row of the sorted s whose key is <= r's.
InsertSorted(s, r, by) ==
    LET k == Cardinality({i \in DOMAIN s : s[i][by] <= r[by]})
    IN  SubSeq(s, 1, k) \o <<r>> \o SubSeq(s, k + 1, Len(s))

\* The ascending order that keeps rows of equal key in their given order.
RECURSIVE SortKeepingTies(_, _)
SortKeepingTies(rows, by) ==
    IF rows = <<>> THEN <<>>
    ELSE InsertSorted(SortKeepingTies(SubSeq(rows, 1, Len(rows) - 1), by),
                      rows[Len(rows)], by)

\* Mutants of sort_values.
sort_values_unsorted(rows, by) == rows

\* DataFrame.sort_values(by) with its default kind="quicksort": ascending
\* by the key; the order among rows of equal key is whatever the build's
\* quicksort leaves, which is fixed for the process but not specified.
sort_values(rows, by) ==
    IF quicksort_ties = "kept"
    THEN SortKeepingTies(rows, by)
    ELSE SortKeepingTies(Reverse(rows), by)

\* Timestamp.strftime("%H:%M"): the hour and the minute of the day.
strftime_HM(ts) == << (ts % 86400) \div 3600, (ts % 3600) \div 60 >>

\* A dict is the sequence of its items in insertion order.
DictKeys(d) == {d[i].key : i \in DOMAIN d}

DictGet(d, k) == d[CHOOSE i \in DOMAIN d : d[i].key = k].value

\* Mutant of DisplayRecord: the record keeps only the thresholds of the
\* configuration entry.
DisplayRecord_thresholds_only(config, values, time_labels) ==
    [k \in (DOMAIN config \ {"unit", "icon", "mean", "std_dev"})
                \cup {"data", "time_labels"} |->
        IF k = "data" THEN values
        ELSE IF k = "time_labels" THEN time_labels
        ELSE config[k]]

\* {**config, "data": values, "time_labels": time_labels}
DisplayRecord(config, values, time_labels) ==
    [k \in DOMAIN config \cup {"data", "time_labels"} |->
        IF k = "data" THEN values
        ELSE IF k = "time_labels" THEN time_labels
        ELSE config[k]]

\* Python's empty dict, as a configuration table.
EmptyDict == [n \in {} |-> 0]

\* Mutant of process_external_data_raises: the function without its
\* `df is None` test, so that None reaches df["Parameter"].
process_external_data_raises_no_none_test(df, parameter_configs) ==
    IF df = None THEN "TypeError"
    ELSE IF df.rows = <<>> \/ df.columns = {} THEN ""
    ELSE IF ~({"Parameter", "Timestamp", "Value"} \subseteq df.columns)
    THEN "KeyError"
    ELSE IF parameter_configs = None THEN "TypeError"
    ELSE ""

\* The exception process_external_data(df, parameter_configs) raises, or
\* "" when it returns: nothing is read before the None/empty test; after
\* it df["Parameter"], the `in` test on the configuration and the
\* Timestamp and Value columns of the first configured group are read, and
\* strftime is called on every timestamp of a configured group, which NaT
\* does not support.
process_external_data_raises(df, parameter_configs) ==
    IF df = None \/ df.rows = <<>> \/ df.columns = {} THEN ""
    ELSE IF "Parameter" \notin df.columns THEN "KeyError"
    ELSE IF parameter_configs = None THEN "TypeError"
    ELSE IF /\ \E i \in DOMAIN df.rows :
                  df.rows[i]["Parameter"] \in DOMAIN parameter_configs
            /\ ~({"Timestamp", "Value"} \subseteq df.columns)
    THEN "KeyError"
    ELSE IF \E i \in DOMAIN df.rows :
               /\ df.rows[i]["Parameter"] \in DOMAIN parameter_configs
               /\ df.rows[i]["Timestamp"] = NaT
    THEN "ValueError"
    ELSE ""

\* Mutants of process_external_data.
process_external_data_keep_unknown(df, parameter_configs) ==
    IF df = None \/ df.rows = <<>> \/ df.columns = {} THEN <<>>
    ELSE LET unique_params == unique(Column(df.rows, "Parameter"))
             entry(param) ==
                 LET param_data ==
                         sort_values(SelectSeq(df.rows,
                             LAMBDA r : r["Parameter"] = param), "Timestamp")
                 IN  [key |-> param,
                      value |-> DisplayRecord(
                          IF param \in DOMAIN parameter_configs
                          THEN parameter_configs[param] ELSE <<>>,
                          Column(param_data, "Value"),
                          [i \in 1..Len(param_data) |->
                              strftime_HM(param_data[i]["Timestamp"])])]
         IN  [i \in 1..Len(unique_params) |-> entry(unique_params[i])]

\* Mutant of process_external_data: the time labels are taken from the
\* parameter's rows before they are sorted.
process_external_data_labels_unsorted(df, parameter_configs) ==
    IF df = None \/ df.rows = <<>> \/ df.columns = {} THEN <<>>
    ELSE LET unique_params == unique(Column(df.rows, "Parameter"))
             configured == SelectSeq(unique_params,
                               LAMBDA p : p \in DOMAIN parameter_configs)
             entry(param) ==
                 LET unsorted == SelectSeq(df.rows,
                                     LAMBDA r : r["Parameter"] = param)
                     param_data == sort_values(unsorted, "Timestamp")
                 IN  [key |-> param,
                      value |-> DisplayRecord(
                          parameter_configs[param],
                          Column(param_data, "Value"),
                          [i \in 1..Len(unsorted) |->
                              strftime_HM(unsorted[i]["Timestamp"])])]
         IN  [i \in 1..Len(configured) |-> entry(configured[i])]

\* Mutant of process_external_data: the values of a group are reduced to
\* its distinct values.
process_external_data_unique_values(df, parameter_configs) ==
    IF df = None \/ df.rows = <<>> \/ df.columns = {} THEN <<>>
    ELSE LET unique_params == unique(Column(df.rows, "Parameter"))
             configured == SelectSeq(unique_params,
                               LAMBDA p : p \in DOMAIN parameter_configs)
             entry(param) ==
                 LET param_data ==
                         sort_values(SelectSeq(df.rows,
                             LAMBDA r : r["Parameter"] = param), "Timestamp")
                 IN  [key |-> param,
                      value |-> DisplayRecord(
                          parameter_configs[param],
                          unique(Column(param_data, "Value")),
                          [i \in 1..Len(param_data) |->
                              strftime_HM(param_data[i]["Timestamp"])])]
         IN  [i \in 1..Len(configured) |-> entry(configured[i])]

\* process_external_data(df, parameter_configs)
process_external_data(df, parameter_configs) ==
    IF df = None \/ df.rows = <<>> \/ df.columns = {} THEN <<>>
    ELSE LET unique_params == unique(Column(df.rows, "Parameter"))
             configured == SelectSeq(unique_params,
                               LAMBDA p : p \in DOMAIN parameter_configs)
             entry(param) ==
                 LET param_data ==
                         sort_values(SelectSeq(df.rows,
                             LAMBDA r : r["Parameter"] = param), "Timestamp")
                 IN  [key |-> param,
                      value |-> DisplayRecord(
                          parameter_configs[param],
                          Column(param_data, "Value"),
                          [i \in 1..Len(param_data) |->
                              strftime_HM(param_data[i]["Timestamp"])])]
         IN  [i \in 1..Len(configured) |-> entry(configured[i])]

---------------------------------------------------------------------------
(* control_switches.py, led_panel.py and the RS422 tab *)

\* The keys of the three st.toggle widgets with their `value=` defaults.
ToggleDefaults ==
    [system_switch |-> TRUE, eom_switch |-> FALSE, som_switch |-> TRUE]

\* st.toggle(..., value=default, key=key): the value the session holds for
\* the key, or the default when the key is new.
toggle(state, key) ==
    IF key \in DOMAIN state THEN state[key] ELSE ToggleDefaults[key]

\* The session state once the three widgets have run.
RunToggles(state) == [key \in DOMAIN ToggleDefaults |-> toggle(state, key)]

\* st.session_state.get(key, False)
session_get(state, key) ==
    IF key \in DOMAIN state THEN state[key] ELSE FALSE

\* Mutant of create_control_switches: the status asks for both SOM and
\* EOM, as the colour does.
create_control_switches_status_needs_both(state) ==
    LET system_on   == toggle(state, "system_switch")
        eom_enabled == toggle(state, "eom_switch")
        som_enabled == toggle(state, "som_switch")
    IN  [ system_indicator |-> IF system_on THEN "ONLINE" ELSE "OFFLINE",
          eom_indicator |-> IF eom_enabled THEN "ACTIVE" ELSE "INACTIVE",
          som_indicator |-> IF som_enabled THEN "ACTIVE" ELSE "INACTIVE",
          status |-> IF system_on
                     THEN IF som_enabled /\ eom_enabled
                          THEN "Active" ELSE "Standby"
                     ELSE "Offline",
          color |-> IF system_on
                    THEN IF som_enabled /\ eom_enabled
                         THEN "#28a745" ELSE "#ffc107"
                    ELSE "#dc3545" ]

\* create_control_switches(): the indicator beside each switch and the
\* Communication banner.
create_control_switches(state) ==
    LET system_on   == toggle(state, "system_switch")
        eom_enabled == toggle(state, "eom_switch")
        som_enabled == toggle(state, "som_switch")
    IN  [ system_indicator |-> IF system_on THEN "ONLINE" ELSE "OFFLINE",
          eom_indicator |-> IF eom_enabled THEN "ACTIVE" ELSE "INACTIVE",
          som_indicator |-> IF som_enabled THEN "ACTIVE" ELSE "INACTIVE",
          status |-> IF system_on
                     THEN IF som_enabled \/ eom_enabled
                          THEN "Active" ELSE "Standby"
                     ELSE "Offline",
          color |-> IF system_on
                    THEN IF som_enabled /\ eom_enabled
                         THEN "#28a745" ELSE "#ffc107"
                    ELSE "#dc3545" ]

\* The example statuses of the eight LEDs.
led_statuses ==
    << [name |-> "POWER", status |-> "green"],
       [name |-> "TEMP", status |-> "green"],
       [name |-> "VOLTAGE", status |-> "yellow"],
       [name |-> "RS422", status |-> "green"],
       [name |-> "MEMORY", status |-> "red"],
       [name |-> "CPU", status |-> "green"],
       [name |-> "I/O", status |-> "green"],
       [name |-> "NET", status |-> "yellow"] >>

color_map == [green |-> "#28a745", yellow |-> "#ffc107", red |-> "#dc3545"]

\* Mutant of create_led_panel: the POWER LED follows the Main Power switch.
create_led_panel_power_follows_switch(state) ==
    [i \in DOMAIN led_statuses |->
        [name |-> led_statuses[i].name,
         color |-> IF led_statuses[i].name = "POWER"
                      /\ ~toggle(state, "system_switch")
                   THEN color_map["red"]
                   ELSE color_map[led_statuses[i].status]]]

\* create_led_panel(): the colour shown for each LED (the session state is
\* not read).
create_led_panel(state) ==
    [i \in DOMAIN led_statuses |->
        [name |-> led_statuses[i].name,
         color |-> color_map[led_statuses[i].status]]]

\* Rates in tenths of Mbit/s.
COMMUNICATION_THRESHOLDS ==
    [excellent |-> 80, good |-> 50, fair |-> 30, max_rate |-> 100]

\* The simulated rate, 8.5 Mbit/s.
current_rate == 85

valid_messages == 975

total_messages == 1000

\* The RS422 tab: the rate and the success rate (in tenths of a percent)
\* with their colours.
rs422_metrics ==
    LET success_rate == (valid_messages * 1000) \div total_messages
    IN  [ current_rate |-> current_rate,
          rate_color |->
              IF current_rate >= COMMUNICATION_THRESHOLDS["excellent"]
              THEN STATUS_COLORS["normal"]
              ELSE IF current_rate >= COMMUNICATION_THRESHOLDS["good"]
              THEN STATUS_COLORS["warning"]
              ELSE STATUS_COLORS["critical"],
          success_rate |-> success_rate,
          success_color |->
              IF success_rate >= 950 THEN STATUS_COLORS["normal"]
              ELSE IF success_rate >= 800 THEN STATUS_COLORS["warning"]
              ELSE STATUS_COLORS["critical"] ]

\* The System Status lines of the sidebar, read from the session state
\* after the widgets have run.
sidebar_status(state) ==
    [ system |-> IF session_get(state, "system_switch")
                 THEN "ACTIVE" ELSE "INACTIVE",
      eom |-> IF session_get(state, "eom_switch")
              THEN "ENABLED" ELSE "DISABLED",
      som |-> IF session_get(state, "som_switch")
              THEN "ENABLED" ELSE "DISABLED" ]

\* Mutant of ControlsPass: the sidebar is drawn before the switch panel
\* has run, from the session state as the pass found it.
ControlsPass_sidebar_first(state) ==
    /\ session_state' = RunToggles(state)
    /\ dashboard' =
           [ switches |-> create_control_switches(state),
             leds |-> create_led_panel(state),
             rs422 |-> rs422_metrics,
             sidebar |-> sidebar_status(state) ]

\* The part of a render pass outside the parameter tab: the widgets
\* register their keys, then the panels are drawn.
ControlsPass(state) ==
    /\ session_state' = RunToggles(state)
    /\ dashboard' =
           [ switches |-> create_control_switches(state),
             leds |-> create_led_panel(state),
             rs422 |-> rs422_metrics,
             sidebar |-> sidebar_status(RunToggles(state)) ]

---------------------------------------------------------------------------
(* Render passes *)

MAIN == "streamlit_debug_gui"

BACKUP == "streamlit_debug_gui_backup"

\* Iteration order of PHYSICAL_PARAMETERS.
ParameterOrder == <<"Temperature", "Voltage", "Humidity", "Resistance">>

\* pd.read_csv(uploaded_data): the table of the file, or None when
\* read_csv raises (EmptyDataError for a file without a header line).
read_csv(file) ==
    IF file.columns = {} THEN None ELSE file

\* df["Timestamp"] = pd.to_datetime(df["Timestamp"]): the frame with its
\* timestamps parsed, or None when the column is missing (KeyError) or a
\* cell does not parse.  No format is given, so pandas parses every form
\* it recognises, and an empty cell becomes NaT without an error.
to_datetime(df) ==
    IF "Timestamp" \notin df.columns THEN None
    ELSE IF \E i \in DOMAIN df.rows : df.rows[i]["Timestamp"] = Unparseable
    THEN None
    ELSE [df EXCEPT !.rows =
             [i \in DOMAIN df.rows |->
                 [df.rows[i] EXCEPT !["Timestamp"] =
                     IF @ >= OtherForm THEN @ - OtherForm ELSE @]]]

\* Mutant of UploadStep: the timestamps are parsed before the columns are
\* checked.
UploadStep_timestamps_first(upl) ==
    IF upl = None
    THEN [parameters |-> <<>>, message |-> "info_no_file"]
    ELSE IF read_csv(upl) = None
    THEN [parameters |-> <<>>, message |-> "error_processing"]
    ELSE IF to_datetime(read_csv(upl)) = None
    THEN [parameters |-> <<>>, message |-> "error_timestamp"]
    ELSE IF ~(REQUIRED_COLUMNS \subseteq read_csv(upl).columns)
    THEN [parameters |-> <<>>, message |-> "error_columns"]
    ELSE IF process_external_data_raises(to_datetime(read_csv(upl)),
                                         get_all_parameters) # ""
    THEN [parameters |-> <<>>, message |-> "error_timestamp"]
    ELSE LET processed ==
                 process_external_data(to_datetime(read_csv(upl)),
                                       get_all_parameters)
         IN  [parameters |-> processed,
              message |-> IF processed = <<>> THEN "warning_no_match"
                          ELSE "success"]

\* Mutant of UploadStep: the inner handler encloses to_datetime only, so
\* an exception of process_external_data reaches the outer handler.
UploadStep_narrow_handler(upl) ==
    IF upl = None
    THEN [parameters |-> <<>>, message |-> "info_no_file"]
    ELSE IF read_csv(upl) = None
    THEN [parameters |-> <<>>, message |-> "error_processing"]
    ELSE IF ~(REQUIRED_COLUMNS \subseteq read_csv(upl).columns)
    THEN [parameters |-> <<>>, message |-> "error_columns"]
    ELSE IF to_datetime(read_csv(upl)) = None
    THEN [parameters |-> <<>>, message |-> "error_timestamp"]
    ELSE IF process_external_data_raises(to_datetime(read_csv(upl)),
                                         get_all_parameters) # ""
    THEN [parameters |-> <<>>, message |-> "error_processing"]
    ELSE LET processed ==
                 process_external_data(to_datetime(read_csv(upl)),
                                       get_all_parameters)
         IN  [parameters |-> processed,
              message |-> IF processed = <<>> THEN "warning_no_match"
                          ELSE "success"]

\* The upload step of main(): the `parameters` it leaves and the message it
\* shows for the file in the uploader.
UploadStep(upl) ==
    IF upl = None
    THEN [parameters |-> <<>>, message |-> "info_no_file"]
    ELSE IF read_csv(upl) = None
    THEN [parameters |-> <<>>, message |-> "error_processing"]
    ELSE IF ~(REQUIRED_COLUMNS \subseteq read_csv(upl).columns)
    THEN [parameters |-> <<>>, message |-> "error_columns"]
    ELSE IF to_datetime(read_csv(upl)) = None
    THEN [parameters |-> <<>>, message |-> "error_timestamp"]
    ELSE IF process_external_data_raises(to_datetime(read_csv(upl)),
                                         get_all_parameters) # ""
    THEN [parameters |-> <<>>, message |-> "error_timestamp"]
    ELSE LET processed ==
                 process_external_data(to_datetime(read_csv(upl)),
                                       get_all_parameters)
         IN  [parameters |-> processed,
              message |-> IF processed = <<>> THEN "warning_no_match"
                          ELSE "success"]

\* Mutant of ParameterTab: the current value is the first element of the
\* data, data[0].
ParameterTab_first_value(param, param_info, time_labels) ==
    LET data == param_info["data"]
    IN  IF data = <<>>
        THEN [param |-> param, raised |-> "IndexError"]
        ELSE LET current_value == data[1]
                 color == get_status_color(current_value, param)
             IN  [param |-> param,
                  current_value |-> current_value,
                  status_color |->
                      IF color \in {STATUS_COLORS["normal"],
                                    STATUS_COLORS["warning"]}
                      THEN color ELSE STATUS_COLORS["critical"],
                  status_text |->
                      IF color = STATUS_COLORS["normal"] THEN "NORMAL"
                      ELSE IF color = STATUS_COLORS["warning"] THEN "WARNING"
                      ELSE "CRITICAL",
                  time_labels |-> time_labels,
                  colors |-> [j \in DOMAIN data |->
                                 get_status_color(data[j], param)]]

\* One parameter tab: the current value, its status and the point colours.
ParameterTab(param, param_info, time_labels) ==
    LET data == param_info["data"]
    IN  IF data = <<>>
        THEN [param |-> param, raised |-> "IndexError"]
        ELSE LET current_value == data[Len(data)]
                 color == get_status_color(current_value, param)
             IN  [param |-> param,
                  current_value |-> current_value,
                  status_color |->
                      IF color \in {STATUS_COLORS["normal"],
                                    STATUS_COLORS["warning"]}
                      THEN color ELSE STATUS_COLORS["critical"],
                  status_text |->
                      IF color = STATUS_COLORS["normal"] THEN "NORMAL"
                      ELSE IF color = STATUS_COLORS["warning"] THEN "WARNING"
                      ELSE "CRITICAL",
                  time_labels |-> time_labels,
                  colors |-> [j \in DOMAIN data |->
                                 get_status_color(data[j], param)]]

\* The tabs main() shows for the records of `params`.
ParameterTabs(params) ==
    [i \in DOMAIN params |->
        ParameterTab(params[i].key, params[i].value,
                     params[i].value["time_labels"])]

\* Mutant of MainPass: `parameters` is kept between passes (as if held in
\* st.session_state) and only replaced by a non-empty import.
MainPass_keeps_parameters(upl) ==
    LET step == UploadStep(upl)
        kept == IF step.parameters = <<>> THEN parameters
                ELSE step.parameters
    IN  /\ parameters' = kept
        /\ message' = step.message
        /\ displayed_before' = displayed
        /\ displayed' = ParameterTabs(kept)

\* A render pass of streamlit_debug_gui.main() with `upl` in the uploader.
MainPass(upl) ==
    LET step == UploadStep(upl)
    IN  /\ parameters' = step.parameters
        /\ message' = step.message
        /\ displayed_before' = displayed
        /\ displayed' = ParameterTabs(step.parameters)

\* The user selects the CSV file in the uploader; the script reruns.
UploadFile ==
    /\ script = MAIN
    /\ uploaded_data' = csv
    /\ MainPass(uploaded_data')
    /\ ControlsPass(session_state)
    /\ lastOp' = "main"
    /\ UNCHANGED << PHYSICAL_PARAMETERS, quicksort_ties, script, csv, call,
                    import_call, ssl_data >>

\* The user clears the uploader; the script reruns.
RemoveFile ==
    /\ script = MAIN
    /\ uploaded_data # None
    /\ uploaded_data' = None
    /\ MainPass(uploaded_data')
    /\ ControlsPass(session_state)
    /\ lastOp' = "main"
    /\ UNCHANGED << PHYSICAL_PARAMETERS, quicksort_ties, script, csv, call,
                    import_call, ssl_data >>

\* Any other rerun of the script (first load, another widget).
Rerun ==
    /\ script = MAIN
    /\ MainPass(uploaded_data)
    /\ ControlsPass(session_state)
    /\ lastOp' = "main"
    /\ UNCHANGED << PHYSICAL_PARAMETERS, quicksort_ties, script, csv,
                    uploaded_data, call, import_call, ssl_data >>

\* The files the user picks from in the specification of the upload step.
\* Rows are written <<timestamp cell, parameter, value>>.
Row3(t) == [Timestamp |-> t[1], Parameter |-> t[2], Value |-> t[3]]

\* A row of a file without the Value column.
Row2(t) == [Timestamp |-> t[1], Parameter |-> t[2]]

\* Well-formed files: two Temperature rows in descending time order; a
\* Voltage and a Temperature row; rows of an unconfigured name only; a
\* header line without rows.
GoodFiles ==
    { DataFrame(<< Row3(<<36300, "Temperature", 200>>),
                   Row3(<<36000, "Temperature", 180>>) >>),
      DataFrame(<< Row3(<<36000, "Voltage", 200>>),
                   Row3(<<36300, "Temperature", 180>>) >>),
      DataFrame(<< Row3(<<36000, "UnknownParam", 200>>) >>),
      DataFrame(<<>>) }

\* Files that lack a required column: Value (with valid rows, with a
\* timestamp that does not parse, with unconfigured rows only) and
\* Timestamp.
FilesLackingAColumn ==
    { [columns |-> {"Timestamp", "Parameter"},
       rows |-> << Row2(<<36000, "Temperature">>) >>],
      [columns |-> {"Timestamp", "Parameter"},
       rows |-> << Row2(<<Unparseable, "Temperature">>) >>],
      [columns |-> {"Timestamp", "Parameter"},
       rows |-> << Row2(<<36000, "UnknownParam">>) >>],
      [columns |-> {"Parameter", "Value"},
       rows |-> << [Parameter |-> "Temperature", Value |-> 200] >>] }

\* Files with all columns and a Timestamp cell that is not written as
\* YYYY-MM-DD HH:MM:SS: text no parser accepts, an empty cell, or another
\* date form, in a configured row or in an unconfigured one.
FilesWithOddTimestamps ==
    { DataFrame(<< Row3(<<36000, "Temperature", 200>>),
                   Row3(<<Unparseable, "Temperature", 180>>) >>),
      DataFrame(<< Row3(<<36000, "Temperature", 200>>),
                   Row3(<<Unparseable, "UnknownParam", 180>>) >>),
      DataFrame(<< Row3(<<36000, "Temperature", 200>>),
                   Row3(<<NaT, "Temperature", 180>>) >>),
      DataFrame(<< Row3(<<36000, "Temperature", 200>>),
                   Row3(<<NaT, "UnknownParam", 180>>) >>),
      DataFrame(<< Row3(<<OtherForm + 36300, "Temperature", 200>>),
                   Row3(<<OtherForm + 36000, "Temperature", 180>>) >>) }

\* Well-formed files whose rows share a time of day: two Temperature rows
\* thirty seconds apart within 10:00, and a Temperature row at 10:00 with
\* one at 09:55 of the next day.
FilesWithRepeatedClockTimes ==
    { DataFrame(<< Row3(<<36000, "Temperature", 180>>),
                   Row3(<<36030, "Temperature", 200>>) >>),
      DataFrame(<< Row3(<<36000, "Temperature", 180>>),
                   Row3(<<86400 + 35700, "Temperature", 200>>) >>) }

UploadFiles ==
    GoodFiles \cup FilesLackingAColumn \cup FilesWithOddTimestamps
        \cup FilesWithRepeatedClockTimes \cup {EmptyFile}

\* The user flips one of the three switches; the script reruns with the
\* new value of the widget in the session state.
Toggle ==
    /\ script = MAIN
    /\ \E key \in DOMAIN session_state :
           ControlsPass([session_state EXCEPT ![key] = ~@])
    /\ MainPass(uploaded_data)
    /\ lastOp' = "toggle"
    /\ UNCHANGED << PHYSICAL_PARAMETERS, quicksort_ties, script, csv,
                    uploaded_data, call, import_call, ssl_data >>

\* The user gets another CSV file ready to upload; nothing is rendered.
SaveFile ==
    /\ script = MAIN
    /\ csv' \in UploadFiles \ {csv}
    /\ UNCHANGED << PHYSICAL_PARAMETERS, quicksort_ties, script,
                    uploaded_data, parameters, displayed, message, call,
                    lastOp, import_call, displayed_before,
                    session_state, dashboard, ssl_data >>

\* Number of samples generated per parameter.
SampleCount == 30

\* datetime.now() of a backup pass: 10:00:00, and 00:10:00 (the thirty
\* minutes shown then start on the day before).
Clock == {36000, 600}

\* One outcome of np.random.normal: sample i of the p-th parameter, in
\* standard deviations from the mean.
Draw(seed, p, i) == ((seed * i + p) % 7) - 3

\* config.copy() with the generated "data" added.
SampleRecord(config, seed, p) ==
    [k \in DOMAIN config \cup {"data"} |->
        IF k = "data"
        THEN [i \in 1..SampleCount |->
                 config["mean"] + config["std_dev"] * Draw(seed, p, i)]
        ELSE config[k]]

SampleParameters(seed) ==
    LET physical_params == get_all_parameters
        names == SelectSeq(ParameterOrder,
                           LAMBDA n : n \in DOMAIN physical_params)
    IN  [p \in DOMAIN names |->
            [key |-> names[p],
             value |-> SampleRecord(physical_params[names[p]], seed, p)]]

\* Mutant of BackupPass: the sample data is stored in the configuration
\* entry itself instead of a copy of it.
BackupPass_no_copy ==
    /\ script = BACKUP
    /\ \E seed \in 1..MaxSeed, now \in Clock :
          LET generated == SampleParameters(seed)
              time_labels == [i \in 1..SampleCount |->
                  strftime_HM(now - 60 * (SampleCount + 1 - i))]
          IN  /\ parameters' = generated
              /\ displayed_before' = displayed
              /\ PHYSICAL_PARAMETERS' =
                     [n \in DOMAIN PHYSICAL_PARAMETERS |->
                         IF n \in DictKeys(generated)
                         THEN DictGet(generated, n)
                         ELSE PHYSICAL_PARAMETERS[n]]
              /\ displayed' =
                     [i \in DOMAIN generated |->
                         ParameterTab(generated[i].key, generated[i].value,
                                      time_labels)]
    /\ ControlsPass(session_state)
    /\ lastOp' = "backup"
    /\ UNCHANGED << quicksort_ties, script, csv, uploaded_data, message,
                    call, import_call, ssl_data >>

\* A render pass of streamlit_debug_gui_backup.main().
BackupPass ==
    /\ script = BACKUP
    /\ \E seed \in 1..MaxSeed, now \in Clock :
          LET generated == SampleParameters(seed)
              time_labels == [i \in 1..SampleCount |->
                  strftime_HM(now - 60 * (SampleCount + 1 - i))]
          IN  /\ parameters' = generated
              /\ displayed_before' = displayed
              /\ displayed' =
                     [i \in DOMAIN generated |->
                         ParameterTab(generated[i].key, generated[i].value,
                                      time_labels)]
    /\ ControlsPass(session_state)
    /\ lastOp' = "backup"
    /\ UNCHANGED << PHYSICAL_PARAMETERS, quicksort_ties, script, csv,
                    uploaded_data, message, call, import_call, ssl_data >>

---------------------------------------------------------------------------
(* streamlit_debug_gui_fixed.py *)

FIXED == "streamlit_debug_gui_fixed"

THRESHOLD_KEYS == {"normal_min", "normal_max", "warning_min", "warning_max"}

\* Mutant of FixedInlineParameters: a copy that was not updated when the
\* Humidity warning range was narrowed to 70.
FixedInlineParameters_stale ==
    [ Temperature |->
        [ unit |-> "degC", normal_min |-> 150, normal_max |-> 350,
          warning_min |-> 100, warning_max |-> 400, icon |-> "thermometer" ],
      Voltage |->
        [ unit |-> "V", normal_min |-> 48, normal_max |-> 52,
          warning_min |-> 45, warning_max |-> 55, icon |-> "bolt" ],
      Humidity |->
        [ unit |-> "%", normal_min |-> 300, normal_max |-> 600,
          warning_min |-> 200, warning_max |-> 800, icon |-> "droplet" ],
      Resistance |->
        [ unit |-> "Ohm", normal_min |-> 950, normal_max |-> 1050,
          warning_min |-> 900, warning_max |-> 1100, icon |-> "Ohm" ] ]

\* The `parameters` table written out inside main() of the fixed script,
\* without its "data" (values in tenths).
FixedInlineParameters ==
    [ Temperature |->
        [ unit |-> "degC", normal_min |-> 150, normal_max |-> 350,
          warning_min |-> 100, warning_max |-> 400, icon |-> "thermometer" ],
      Voltage |->
        [ unit |-> "V", normal_min |-> 48, normal_max |-> 52,
          warning_min |-> 45, warning_max |-> 55, icon |-> "bolt" ],
      Humidity |->
        [ unit |-> "%", normal_min |-> 300, normal_max |-> 600,
          warning_min |-> 200, warning_max |-> 700, icon |-> "droplet" ],
      Resistance |->
        [ unit |-> "Ohm", normal_min |-> 950, normal_max |-> 1050,
          warning_min |-> 900, warning_max |-> 1100, icon |-> "Ohm" ] ]

\* The three-way test the fixed script writes out for the current value
\* and again for every point.
inline_status_color(param_info, value) ==
    IF param_info["normal_min"] <= value /\ value <= param_info["normal_max"]
    THEN "#28a745"
    ELSE IF /\ param_info["warning_min"] <= value
            /\ value <= param_info["warning_max"]
    THEN "#ffc107"
    ELSE "#dc3545"

ThresholdOrder == <<"warning_min", "normal_min", "normal_max", "warning_max">>

\* One outcome of np.random.normal in the fixed script: the samples run
\* through the thresholds of the entry and the values up to MaxStep tenths
\* on either side of each, starting at a place the seed decides.
FixedSample(param_info, seed, i) ==
    LET width == 2 * MaxStep + 1
        n == (i + seed) % (4 * width)
    IN  param_info[ThresholdOrder[(n \div width) + 1]] + (n % width) - MaxStep

\* One tab of the fixed script.
FixedParameterTab(param, param_info, time_labels) ==
    LET data == param_info["data"]
        current_value == data[Len(data)]
        status_color == inline_status_color(param_info, current_value)
    IN  [param |-> param,
         current_value |-> current_value,
         status_color |-> status_color,
         status_text |-> IF status_color = "#28a745" THEN "NORMAL"
                         ELSE IF status_color = "#ffc107" THEN "WARNING"
                         ELSE "CRITICAL",
         time_labels |-> time_labels,
         colors |-> [j \in DOMAIN data |->
                        inline_status_color(param_info, data[j])]]

\* A render pass of streamlit_debug_gui_fixed.main().
FixedPass ==
    /\ script = FIXED
    /\ \E seed \in 1..MaxSeed, now \in Clock :
          LET generated ==
                  [p \in DOMAIN ParameterOrder |->
                      LET entry == FixedInlineParameters[ParameterOrder[p]]
                      IN  [key |-> ParameterOrder[p],
                           value |->
                               [k \in DOMAIN entry \cup {"data"} |->
                                   IF k = "data"
                                   THEN [i \in 1..SampleCount |->
                                            FixedSample(entry, seed, i)]
                                   ELSE entry[k]]]]
              time_labels == [i \in 1..SampleCount |->
                  strftime_HM(now - 60 * (SampleCount + 1 - i))]
          IN  /\ parameters' = generated
              /\ displayed_before' = displayed
              /\ displayed' =
                     [i \in DOMAIN generated |->
                         FixedParameterTab(generated[i].key,
                                           generated[i].value, time_labels)]
    /\ ControlsPass(session_state)
    /\ lastOp' = "fixed"
    /\ UNCHANGED << PHYSICAL_PARAMETERS, quicksort_ties, script, csv,
                    uploaded_data, message, call, import_call, ssl_data >>

---------------------------------------------------------------------------
(* ssl_table.py *)

\* The values random.choice(statuses) can return.
statuses == {"Established", "Closed", "Terminated", "Negotiating"}

status_colors ==
    [ Established |-> "#28a745", Closed |-> "#6c757d",
      Terminated |-> "#dc3545", Negotiating |-> "#ffc107" ]

\* The status badges create_ssl_table renders, one per row: the text is
\* the row's Status and the background its Status Color.
status_badges(data) ==
    [i \in DOMAIN data |->
        [text |-> data[i]["Status"],
         background |-> data[i]["StatusColor"]]]

\* A call of generate_ssl_data(rows).  Of the columns, the model keeps
\* Status and Status Color; each cell of either comes from a random.choice
\* of its own.
generate_ssl_data ==
    /\ \E rows \in 0..MaxSslRows :
          \E status_draw, color_draw \in [1..rows -> statuses] :
              ssl_data' =
                  [i \in 1..rows |->
                      [ Status |-> status_draw[i],
                        StatusColor |-> status_colors[color_draw[i]] ]]
    /\ lastOp' = "generate_ssl_data"
    /\ UNCHANGED << PHYSICAL_PARAMETERS, quicksort_ties, script, csv,
                    uploaded_data, parameters, displayed, message, call,
                    import_call, displayed_before, session_state, dashboard >>

---------------------------------------------------------------------------
(* Direct calls of the classifier *)

\* The values classified: every threshold of the table and the values up
\* to MaxStep tenths on either side of it.
ClassifyValues ==
    {InitialParameters[p][k] + e :
        p \in DOMAIN InitialParameters, k \in THRESHOLD_KEYS,
        e \in (0 - MaxStep)..MaxStep}

\* The names classified: the configured ones and two that are not.
ClassifyNames == DOMAIN InitialParameters \cup {"UnknownParam", "temperature"}

NoCall == [value |-> 0, parameter_name |-> "", result |-> ""]

\* Mutant of Classify: the call narrows the entry it compared against.
Classify_clamps ==
    \E value \in ClassifyValues, parameter_name \in ClassifyNames :
        /\ call' = [value |-> value, parameter_name |-> parameter_name,
                    result |-> get_status_color(value, parameter_name)]
        /\ PHYSICAL_PARAMETERS' =
               [n \in DOMAIN PHYSICAL_PARAMETERS |->
                   IF n = parameter_name
                   THEN [PHYSICAL_PARAMETERS[n] EXCEPT !["warning_max"] =
                            PHYSICAL_PARAMETERS[n]["normal_max"]]
                   ELSE PHYSICAL_PARAMETERS[n]]
        /\ lastOp' = "get_status_color"
        /\ UNCHANGED << quicksort_ties, script, csv, uploaded_data,
                        parameters, displayed, message, import_call,
                        displayed_before,
                        session_state, dashboard, ssl_data >>

\* get_status_color(value, parameter_name) called directly.
Classify ==
    \E value \in ClassifyValues, parameter_name \in ClassifyNames :
        /\ call' = [value |-> value, parameter_name |-> parameter_name,
                    result |-> get_status_color(value, parameter_name)]
        /\ lastOp' = "get_status_color"
        /\ UNCHANGED << PHYSICAL_PARAMETERS, quicksort_ties, script, csv,
                        uploaded_data, parameters, displayed, message,
                        import_call, displayed_before,
                        session_state, dashboard, ssl_data >>

---------------------------------------------------------------------------
(* Direct calls of the importer *)

\* The rows of the frames handed to a direct call: Temperature rows and
\* rows of the unconfigured name.
ImportRows == {r \in Rows : r["Parameter"] # "Voltage"}

\* The frames handed to a direct call: no frame at all, a frame without
\* rows, a frame without rows and without columns, and every frame of one
\* or two rows with parsed timestamps.
ImportFrames ==
    {None, DataFrame(<<>>), [columns |-> {}, rows |-> <<>>]}
        \cup {DataFrame(<<r>>) : r \in ImportRows}
        \cup {DataFrame(<<r, s>>) : r, s \in ImportRows}

\* The configurations handed to a direct call.
ImportConfigs == {None, EmptyDict, get_all_parameters, ALL_PARAMETER_NORMS}

NoImport ==
    [made |-> FALSE, df |-> None, parameter_configs |-> None,
     raised |-> "", returned |-> <<>>, df_after |-> None]

\* What a direct call leaves: its arguments, the exception or the returned
\* dict, and the caller's frame as it is after the call.
ImportOutcome(df, parameter_configs, df_after) ==
    LET raised == process_external_data_raises(df, parameter_configs)
    IN  [made |-> TRUE, df |-> df, parameter_configs |-> parameter_configs,
         raised |-> raised,
         returned |-> IF raised = ""
                      THEN process_external_data(df, parameter_configs)
                      ELSE <<>>,
         df_after |-> df_after]

\* Mutant of ImportCall: the call sorts the caller's frame in place.
ImportCall_sorts_in_place ==
    \E df \in ImportFrames, parameter_configs \in ImportConfigs :
        /\ import_call' =
               ImportOutcome(df, parameter_configs,
                   IF df = None THEN None
                   ELSE [df EXCEPT !.rows = sort_values(df.rows, "Timestamp")])
        /\ lastOp' = "process_external_data"
        /\ UNCHANGED << PHYSICAL_PARAMETERS, quicksort_ties, script, csv,
                        uploaded_data, parameters, displayed, message, call,
                        displayed_before,
                        session_state, dashboard, ssl_data >>

\* process_external_data(df, parameter_configs) called directly: the
\* function works on df[...].copy() and assigns to no part of df.
ImportCall ==
    \E df \in ImportFrames, parameter_configs \in ImportConfigs :
        /\ import_call' = ImportOutcome(df, parameter_configs, df)
        /\ lastOp' = "process_external_data"
        /\ UNCHANGED << PHYSICAL_PARAMETERS, quicksort_ties, script, csv,
                        uploaded_data, parameters, displayed, message, call,
                        displayed_before,
                        session_state, dashboard, ssl_data >>

---------------------------------------------------------------------------
(* Specifications *)

\* The state every process starts in, for the CSV files of `files`.
Start(files) ==
    /\ PHYSICAL_PARAMETERS = InitialParameters
    /\ script \in {MAIN, BACKUP, FIXED}
    /\ IF script = MAIN
       THEN quicksort_ties \in {"kept", "reversed"} /\ csv \in files
       ELSE quicksort_ties = "kept" /\ csv = EmptyFile
    /\ uploaded_data = None
    /\ parameters = <<>>
    /\ displayed = <<>>
    /\ message = "info_no_file"
    /\ call = NoCall
    /\ import_call = NoImport
    /\ displayed_before = <<>>
    /\ session_state = EmptyDict
    /\ dashboard = EmptyDict
    /\ lastOp = "start"
    /\ ssl_data = <<>>

\* Every well-formed CSV file of up to MaxRows rows.
CsvFiles == {DataFrame(rows) : rows \in RowSeqs}

Init == Start(CsvFiles)

Next == UploadFile \/ RemoveFile \/ Rerun \/ BackupPass \/ FixedPass

\* The dashboard scripts over every CSV file of up to MaxRows rows.
Spec == Init /\ [][Next]_vars

\* The example file of the classifier specification: the Temperature rows
\* 10:05 -> 20.0 and 10:00 -> 18.0 with a row of an unconfigured parameter
\* between them.
SampleFiles ==
    { DataFrame(
      << [Timestamp |-> 36300, Parameter |-> "Temperature", Value |-> 200],
         [Timestamp |-> 36000, Parameter |-> "UnknownParam", Value |-> 200],
         [Timestamp |-> 36000, Parameter |-> "Temperature", Value |-> 180] >>) }

InitClassifier == Start(SampleFiles) /\ script = MAIN

NextClassifier == Classify \/ UploadFile \/ RemoveFile \/ Rerun

\* The classifier called directly, between render passes of the main script.
SpecClassifier == InitClassifier /\ [][NextClassifier]_vars

InitUploads == Start(UploadFiles) /\ script = MAIN

NextUploads == SaveFile \/ UploadFile \/ RemoveFile \/ Rerun

\* The upload step of the main script over good, incomplete, unparseable
\* and unreadable files, uploaded one after another.
SpecUploads == InitUploads /\ [][NextUploads]_vars

InitSwitches == Start(UploadFiles) /\ script = MAIN

NextSwitches == Toggle \/ UploadFile \/ RemoveFile \/ Rerun

\* The switches flipped between uploads and reruns of the main script.
SpecSwitches == InitSwitches /\ [][NextSwitches]_vars

InitSsl == Start(SampleFiles) /\ script = BACKUP

NextSsl == generate_ssl_data

\* The SSL table generator called again and again in the process of the
\* backup script, which imports it.
SpecSsl == InitSsl /\ [][NextSsl]_vars

InitImporter == Start(SampleFiles) /\ script = MAIN

NextImporter == ImportCall \/ UploadFile \/ RemoveFile \/ Rerun

\* The importer called directly, between render passes of the main script.
SpecImporter == InitImporter /\ [][NextImporter]_vars

---------------------------------------------------------------------------
(* Claims *)

Normal == STATUS_COLORS["normal"]

Warning == STATUS_COLORS["warning"]

Critical == STATUS_COLORS["critical"]

Inactive == STATUS_COLORS["inactive"]

\* A direct call has been made and its name is a key of the table.
CalledConfigured ==
    call # NoCall /\ call.parameter_name \in DOMAIN PHYSICAL_PARAMETERS

InNormalBand(p, v) == p["normal_min"] <= v /\ v <= p["normal_max"]

InWarningBand(p, v) == p["warning_min"] <= v /\ v <= p["warning_max"]

\* C1: for a configured parameter the call yields Normal exactly when the
\* value lies in the normal band, otherwise Warning exactly when it lies in
\* the warning band, otherwise Critical; the normal band is tested first.
C1_BandsDecideClass ==
    CalledConfigured =>
        LET p == PHYSICAL_PARAMETERS[call.parameter_name]
            v == call.value
        IN  /\ call.result = Normal <=> InNormalBand(p, v)
            /\ call.result = Warning <=>
                   (~InNormalBand(p, v) /\ InWarningBand(p, v))
            /\ call.result = Critical <=>
                   (~InNormalBand(p, v) /\ ~InWarningBand(p, v))

\* A value of the normal band, which also lies in the warning band, came
\* out Normal.
C1_Witness ==
    /\ CalledConfigured
    /\ InNormalBand(PHYSICAL_PARAMETERS[call.parameter_name], call.value)
    /\ InWarningBand(PHYSICAL_PARAMETERS[call.parameter_name], call.value)
    /\ call.result = Normal

\* C2: for a name that is not a key of the table the call returns the
\* Inactive class as its result, whatever the value; it does not raise.
C2_UnknownNameIsInactive ==
    (call # NoCall /\ call.parameter_name \notin DOMAIN PHYSICAL_PARAMETERS)
        => call.result = Inactive

C2_Witness ==
    /\ call.parameter_name = "UnknownParam"
    /\ call.value = PHYSICAL_PARAMETERS["Temperature"]["normal_min"]
    /\ call.result = Inactive

\* C3: for each of the four configured parameters the values normal_min
\* and normal_max themselves are classified Normal.
C3_NormalBoundsAreNormal ==
    /\ DOMAIN PHYSICAL_PARAMETERS =
           {"Temperature", "Voltage", "Humidity", "Resistance"}
    /\ \A n \in DOMAIN PHYSICAL_PARAMETERS :
           (/\ call.parameter_name = n
            /\ call.value \in {PHYSICAL_PARAMETERS[n]["normal_min"],
                               PHYSICAL_PARAMETERS[n]["normal_max"]})
               => call.result = Normal

C3_Witness ==
    /\ call.parameter_name = "Voltage"
    /\ call.value = PHYSICAL_PARAMETERS["Voltage"]["normal_max"]
    /\ call.result = Normal

\* C4: for a configured parameter, a value e > 0 below warning_min or e > 0
\* above warning_max is classified Critical.
C4_OutsideWarningIsCritical ==
    CalledConfigured =>
        LET p == PHYSICAL_PARAMETERS[call.parameter_name]
        IN  \A e \in 1..MaxStep :
                call.value \in {p["warning_min"] - e, p["warning_max"] + e}
                    => call.result = Critical

C4_Witness ==
    /\ call.parameter_name = "Humidity"
    /\ call.value = PHYSICAL_PARAMETERS["Humidity"]["warning_max"] + MaxStep
    /\ call.result = Critical

BandsNested(p) ==
    /\ p["warning_min"] <= p["normal_min"]
    /\ p["normal_min"] <= p["normal_max"]
    /\ p["normal_max"] <= p["warning_max"]

\* C5: in every entry of PHYSICAL_PARAMETERS and of ALL_PARAMETER_NORMS the
\* normal band lies inside the warning band.
C5_BandsNested ==
    /\ \A n \in DOMAIN PHYSICAL_PARAMETERS : BandsNested(PHYSICAL_PARAMETERS[n])
    /\ \A n \in DOMAIN ALL_PARAMETER_NORMS : BandsNested(ALL_PARAMETER_NORMS[n])

\* An import has merged entries of the table into its records, and the
\* bands carried by every record are nested.
C5_Witness ==
    /\ message = "success"
    /\ Len(parameters) = 2
    /\ \A i \in DOMAIN parameters : BandsNested(parameters[i].value)

STATUS_CLASSES == {Normal, Warning, Critical, Inactive}

\* C6: every call returns one of the four classes; a call with the
\* arguments of the call before it returns the same class, whatever render
\* passes ran in between; and a call changes nothing but its own result.
C6_PureAndTotal ==
    /\ [](call # NoCall => call.result \in STATUS_CLASSES)
    /\ [][lastOp' = "get_status_color" =>
            /\ (/\ call # NoCall
                /\ call'.value = call.value
                /\ call'.parameter_name = call.parameter_name)
                   => call'.result = call.result
            /\ UNCHANGED << PHYSICAL_PARAMETERS, quicksort_ties, script, csv,
                            uploaded_data, parameters, displayed, message,
                            import_call, displayed_before,
                            session_state, dashboard, ssl_data >>
        ]_vars

\* A call made after an import pass classified 35.1 degC as Warning.
C6_Witness ==
    /\ lastOp = "get_status_color"
    /\ message = "success"
    /\ call.parameter_name = "Temperature"
    /\ call.value = PHYSICAL_PARAMETERS["Temperature"]["normal_max"] + 1
    /\ call.result = Warning

\* C7: the configuration table keeps its initial value through every
\* import and render pass, including the sample generation of the backup
\* script and the classifications made inside the passes.
C7_TableUnchanged == PHYSICAL_PARAMETERS = InitialParameters

\* The backup script generated its sample data from the entries.
C7_Witness ==
    /\ lastOp = "backup"
    /\ Len(parameters) = 4
    /\ \A i \in DOMAIN parameters :
           Len(parameters[i].value["data"]) = SampleCount
    /\ PHYSICAL_PARAMETERS = InitialParameters

\* The rows of the uploaded file that name `param`.
RowsOf(param) ==
    {j \in DOMAIN uploaded_data.rows :
        uploaded_data.rows[j]["Parameter"] = param}

\* The ways to read the n values of a record as the rows of `param`, each
\* row once.
Arrangements(param, n) ==
    {f \in [1..n -> RowsOf(param)] :
        /\ \A a, b \in 1..n : a # b => f[a] # f[b]
        /\ \A j \in RowsOf(param) : \E a \in 1..n : f[a] = j}

\* An import pass has produced records from the uploaded file.
Imported == script = MAIN /\ uploaded_data # None /\ parameters # <<>>

\* C8: the values of every record are those of the parameter's rows in
\* order of non-decreasing timestamp, whatever the order of the rows in
\* the file.
C8_ValuesInTimestampOrder ==
    Imported =>
        \A i \in DOMAIN parameters :
            LET data == parameters[i].value["data"]
                rows == uploaded_data.rows
            IN  \E f \in Arrangements(parameters[i].key, Len(data)) :
                    /\ \A a \in DOMAIN data : data[a] = rows[f[a]]["Value"]
                    /\ \A a \in 1..(Len(data) - 1) :
                           rows[f[a]]["Timestamp"] <= rows[f[a + 1]]["Timestamp"]

\* The rows 10:05 -> 20.0 then 10:00 -> 18.0 gave the values [18.0, 20.0].
C8_Witness ==
    /\ Imported
    /\ uploaded_data.rows =
           << [Timestamp |-> 36300, Parameter |-> "Temperature", Value |-> 200],
              [Timestamp |-> 36000, Parameter |-> "Temperature", Value |-> 180] >>
    /\ DictGet(parameters, "Temperature")["data"] = <<180, 200>>

\* C9: the sort is stable: the values of rows of one parameter with equal
\* timestamps appear in the record in the order of the rows in the file.
C9_SortIsStable ==
    Imported =>
        \A i \in DOMAIN parameters :
            LET data == parameters[i].value["data"]
                rows == uploaded_data.rows
            IN  \E f \in Arrangements(parameters[i].key, Len(data)) :
                    /\ \A a \in DOMAIN data : data[a] = rows[f[a]]["Value"]
                    /\ \A a, b \in DOMAIN data :
                           (/\ a < b
                            /\ rows[f[a]]["Timestamp"] = rows[f[b]]["Timestamp"])
                               => f[a] < f[b]

\* The names of the uploaded rows that are keys of the table.
ConfiguredNamesUploaded ==
    {uploaded_data.rows[j]["Parameter"] : j \in DOMAIN uploaded_data.rows}
        \cap DOMAIN PHYSICAL_PARAMETERS

\* The uploaded file without the rows of unconfigured parameters.
WithoutUnknownRows ==
    DataFrame(SelectSeq(uploaded_data.rows,
        LAMBDA r : r["Parameter"] \in DOMAIN PHYSICAL_PARAMETERS))

\* C10: rows of unconfigured parameters are dropped without an error: the
\* keys of the result are the configured names that occur in the rows, the
\* records are those of the file without the unconfigured rows, and the
\* pass reports no error.
C10_UnknownRowsDropped ==
    (script = MAIN /\ uploaded_data # None) =>
        /\ DictKeys(parameters) = ConfiguredNamesUploaded
        /\ parameters =
               process_external_data(WithoutUnknownRows, get_all_parameters)
        /\ message \in {"success", "warning_no_match"}

\* A file with an unconfigured row between two Temperature rows gave the
\* Temperature record alone.
C10_Witness ==
    /\ script = MAIN
    /\ uploaded_data # None
    /\ Len(uploaded_data.rows) = 3
    /\ uploaded_data.rows[2]["Parameter"] = "UnknownParam"
    /\ DictKeys(parameters) = {"Temperature"}
    /\ Len(DictGet(parameters, "Temperature")["data"]) = 2
    /\ message = "success"

DERIVED_FIELDS == {"data", "time_labels"}

\* C11: every record of an import carries every field of the parameter's
\* configuration entry with the configured value, and besides them exactly
\* the two derived fields `data` and `time_labels`.
C11_RecordCarriesConfig ==
    Imported =>
        \A i \in DOMAIN parameters :
            LET record == parameters[i].value
                config == PHYSICAL_PARAMETERS[parameters[i].key]
            IN  /\ DOMAIN record = DOMAIN config \cup DERIVED_FIELDS
                /\ DOMAIN config \cap DERIVED_FIELDS = {}
                /\ \A k \in DOMAIN config : record[k] = config[k]

\* The Voltage record of an import has the ten fields: the eight of the
\* Voltage entry, `data` and `time_labels`.
C11_Witness ==
    /\ Imported
    /\ "Voltage" \in DictKeys(parameters)
    /\ Cardinality(DOMAIN DictGet(parameters, "Voltage")) = 10
    /\ DictGet(parameters, "Voltage")["unit"] = "V"
    /\ DictGet(parameters, "Voltage")["normal_max"] = 52
    /\ Len(DictGet(parameters, "Voltage")["data"]) = 2

\* C12: in every record of an import time_labels and data have the same
\* length, and time_labels[a] is the hour:minute rendering of the
\* timestamp of the very row whose value is data[a]; the chart of the
\* parameter is drawn over these labels.
C12_LabelsAlignedWithValues ==
    Imported =>
        \A i \in DOMAIN parameters :
            LET data == parameters[i].value["data"]
                time_labels == parameters[i].value["time_labels"]
                rows == uploaded_data.rows
            IN  /\ Len(time_labels) = Len(data)
                /\ \E f \in Arrangements(parameters[i].key, Len(data)) :
                       \A a \in DOMAIN data :
                           /\ data[a] = rows[f[a]]["Value"]
                           /\ time_labels[a] =
                                  strftime_HM(rows[f[a]]["Timestamp"])
                /\ displayed[i].time_labels = time_labels

\* The rows 10:05 -> 20.0 then 10:00 -> 18.0 gave 18.0 under the label
\* 10:00 and 20.0 under the label 10:05.
C12_Witness ==
    /\ Imported
    /\ Len(uploaded_data.rows) = 2
    /\ uploaded_data.rows[1]["Timestamp"] = 36300
    /\ uploaded_data.rows[1]["Value"] = 200
    /\ uploaded_data.rows[2]["Timestamp"] = 36000
    /\ uploaded_data.rows[2]["Value"] = 180
    /\ Len(displayed) = 1
    /\ parameters[1].value["data"] = <<180, 200>>
    /\ displayed[1].time_labels = << <<10, 0>>, <<10, 5>> >>

\* C13: a direct call whose table is None or has no rows returns the empty
\* mapping and raises nothing, whatever the configuration argument is
\* (None and the empty dict included).
C13_EmptyInputGivesEmptyMapping ==
    (/\ import_call.made
     /\ (import_call.df = None \/ import_call.df.rows = <<>>))
        => /\ import_call.raised = ""
           /\ import_call.returned = <<>>

\* A call with no table and no configuration returned the empty mapping.
C13_Witness ==
    /\ import_call.made
    /\ import_call.df = None
    /\ import_call.parameter_configs = None
    /\ import_call.raised = ""
    /\ import_call.returned = <<>>

\* C14: a direct call leaves the caller's table as it was, and a call on
\* the table and configuration of the call before it returns the same
\* result (keys, values and time labels, in the same order), whatever
\* render passes ran in between.
C14_ImportIdempotent ==
    /\ [](import_call.made => import_call.df_after = import_call.df)
    /\ [][(/\ lastOp' = "process_external_data"
            /\ import_call.made
            /\ import_call'.df = import_call.df_after
            /\ import_call'.parameter_configs = import_call.parameter_configs)
              => /\ import_call'.raised = import_call.raised
                 /\ import_call'.returned = import_call.returned
        ]_vars

\* A call on two Temperature rows given in descending time order returned
\* the values in ascending order and left the rows in their given order.
C14_Witness ==
    /\ import_call.made
    /\ import_call.df # None
    /\ Len(import_call.df.rows) = 2
    /\ import_call.df.rows[1]["Timestamp"] > import_call.df.rows[2]["Timestamp"]
    /\ import_call.df.rows[1]["Value"] = 200
    /\ import_call.df.rows[2]["Value"] = 180
    /\ import_call.raised = ""
    /\ Len(import_call.returned) = 1
    /\ import_call.returned[1].value["data"] = <<180, 200>>
    /\ import_call.df_after = import_call.df

\* The uploader holds a file that read_csv reads as a table.
TableUploaded ==
    script = MAIN /\ uploaded_data # None /\ read_csv(uploaded_data) # None

\* C15: an uploaded table that lacks one of the columns Timestamp,
\* Parameter, Value gets the column error and no other message, also when
\* one of its timestamps would not parse and when none of its rows names a
\* configured parameter; the pass leaves no record and shows no tab.
C15_MissingColumnRejected ==
    (TableUploaded /\ ~(REQUIRED_COLUMNS \subseteq uploaded_data.columns))
        => /\ message = "error_columns"
           /\ parameters = <<>>
           /\ displayed = <<>>

\* A table without the Value column, whose only timestamp does not parse,
\* got the column error.
C15_Witness ==
    /\ TableUploaded
    /\ uploaded_data.columns = {"Timestamp", "Parameter"}
    /\ uploaded_data.rows[1]["Timestamp"] = Unparseable
    /\ uploaded_data.rows[1]["Parameter"] = "Temperature"
    /\ message = "error_columns"
    /\ parameters = <<>>

\* C16: when the Timestamp cell of any row of an uploaded table with all
\* three columns is not a timestamp written as YYYY-MM-DD HH:MM:SS, the
\* upload gets the timestamp error and leaves no record, whether the row
\* names a configured parameter or not.
C16_OddTimestampRejected ==
    (/\ TableUploaded
     /\ REQUIRED_COLUMNS \subseteq uploaded_data.columns
     /\ \E i \in DOMAIN uploaded_data.rows :
            ~IsExpectedForm(uploaded_data.rows[i]["Timestamp"]))
        => /\ message = "error_timestamp"
           /\ parameters = <<>>
           /\ displayed = <<>>

ACCEPTED == {"success", "warning_no_match"}

\* C17: the upload step has two error outcomes only: every uploaded file
\* ends with the column error, the timestamp error or an accepted import
\* (possibly with an empty result).
C17_TwoErrorOutcomes ==
    (script = MAIN /\ uploaded_data # None)
        => message \in {"error_columns", "error_timestamp"} \cup ACCEPTED

\* C17 as amended: the upload step has three error outcomes.  A file that
\* read_csv cannot read gets the file-processing error, and only such a
\* file; a table that lacks a required column gets the column error, and
\* only such a table; every other file gets the timestamp error or is
\* accepted; and every error leaves no record.
C17_ThreeErrorOutcomes ==
    (script = MAIN /\ uploaded_data # None)
        => LET complete == /\ read_csv(uploaded_data) # None
                           /\ REQUIRED_COLUMNS \subseteq uploaded_data.columns
           IN  /\ message \in {"error_processing", "error_columns",
                               "error_timestamp"} \cup ACCEPTED
               /\ message = "error_processing"
                      <=> read_csv(uploaded_data) = None
               /\ message = "error_columns"
                      <=> (read_csv(uploaded_data) # None /\ ~complete)
               /\ message = "error_timestamp" => complete
               /\ message \notin ACCEPTED
                      => (parameters = <<>> /\ displayed = <<>>)
               /\ message = "success" <=> parameters # <<>>

\* A file of zero bytes got the file-processing error and left no record.
C17_Witness ==
    /\ script = MAIN
    /\ uploaded_data = EmptyFile
    /\ message = "error_processing"
    /\ parameters = <<>>

\* The parameter names in the rows of the file in the uploader.
NamesUploaded ==
    IF uploaded_data = None \/ "Parameter" \notin uploaded_data.columns
    THEN {}
    ELSE {uploaded_data.rows[j]["Parameter"] : j \in DOMAIN uploaded_data.rows}

\* C18: what a render pass of the main script shows comes from the file in
\* the uploader during that pass and from nothing shown before: without a
\* file, or with a rejected one, no record is left and no tab is shown,
\* whatever the pass before showed; with an accepted file the tabs are
\* those of its configured parameters, one each, with its values.
C18_NothingCarriedOver ==
    (script = MAIN /\ lastOp = "main") =>
        /\ (uploaded_data = None \/ message \notin ACCEPTED)
               => (parameters = <<>> /\ displayed = <<>>)
        /\ Len(displayed) = Len(parameters)
        /\ (uploaded_data # None /\ message \in ACCEPTED)
               => DictKeys(parameters) =
                      NamesUploaded \cap DOMAIN PHYSICAL_PARAMETERS
        /\ \A i \in DOMAIN parameters :
               /\ displayed[i].param = parameters[i].key
               /\ \A j \in DOMAIN parameters : i # j =>
                      parameters[i].key # parameters[j].key
               /\ \E f \in Arrangements(parameters[i].key,
                                         Len(parameters[i].value["data"])) :
                      \A a \in DOMAIN parameters[i].value["data"] :
                          parameters[i].value["data"][a] =
                              uploaded_data.rows[f[a]]["Value"]

\* After a pass that showed the two Temperature values 18.0 and 20.0 of one
\* file, the pass on the file with a Voltage row and one Temperature row
\* 18.0 shows those two tabs only, with one value each.
C18_Witness ==
    /\ script = MAIN
    /\ Len(displayed_before) = 1
    /\ displayed_before[1].param = "Temperature"
    /\ displayed_before[1].colors = <<Normal, Normal>>
    /\ Len(displayed) = 2
    /\ displayed[1].param = "Voltage"
    /\ displayed[2].param = "Temperature"
    /\ displayed[2].current_value = 180
    /\ Len(parameters[2].value["data"]) = 1

\* After a pass that showed a Temperature tab, the pass on a rejected
\* file shows none.
C18_WitnessRejected ==
    /\ script = MAIN
    /\ displayed_before # <<>>
    /\ message \in {"error_columns", "error_timestamp", "error_processing"}
    /\ displayed = <<>>

\* C19: the switches are UI-only.  Whatever has been toggled, a render
\* pass shows the LED colours and the RS422 rate and success indicators of
\* the initial switch positions, and its records and tabs are those of the
\* uploaded file alone; a toggle leaves the configuration table, the
\* records, the tabs with their classifications and the upload message as
\* they were, and changes the switch indicators and the sidebar lines.
C19_SwitchesAreUIOnly ==
    /\ [](lastOp \in {"main", "toggle"} =>
             /\ dashboard.leds = create_led_panel(EmptyDict)
             /\ dashboard.rs422 = rs422_metrics
             /\ parameters = UploadStep(uploaded_data).parameters
             /\ displayed = ParameterTabs(parameters))
    /\ [][lastOp' = "toggle" =>
            /\ dashboard'.leds = dashboard.leds
            /\ dashboard'.rs422 = dashboard.rs422
            /\ parameters' = parameters
            /\ displayed' = displayed
            /\ message' = message
            /\ PHYSICAL_PARAMETERS' = PHYSICAL_PARAMETERS
            /\ quicksort_ties' = quicksort_ties
            /\ dashboard'.switches # dashboard.switches
            /\ dashboard'.sidebar # dashboard.sidebar
        ]_vars

\* With Main Power switched off and EOM switched on after a successful
\* import, the banner says Offline, the POWER LED is still green and the
\* Temperature tab is still shown.
C19_Witness ==
    /\ lastOp = "toggle"
    /\ ~session_state["system_switch"]
    /\ session_state["eom_switch"]
    /\ dashboard.switches.status = "Offline"
    /\ dashboard.sidebar.system = "INACTIVE"
    /\ dashboard.leds[1] = [name |-> "POWER", color |-> "#28a745"]
    /\ dashboard.rs422.rate_color = Normal
    /\ message = "success"
    /\ Len(displayed) = 1
    /\ displayed[1].status_text = "NORMAL"

\* The class the legend of a parameter tab gives a value: Normal from
\* normal_min to normal_max, Warning from warning_min to warning_max
\* "excluding normal range", Critical "below warning_min or above
\* warning_max".
LegendClasses(p, v) ==
    (IF p["normal_min"] <= v /\ v <= p["normal_max"] THEN {Normal} ELSE {})
    \cup (IF /\ p["warning_min"] <= v /\ v <= p["warning_max"]
             /\ ~(p["normal_min"] <= v /\ v <= p["normal_max"])
          THEN {Warning} ELSE {})
    \cup (IF v < p["warning_min"] \/ v > p["warning_max"]
          THEN {Critical} ELSE {})

\* C20: with the configured table the classes partition the values as the
\* legend says: the legend names exactly one class for every value, and it
\* is the class the classifier returns, in direct calls and for every
\* point drawn in a parameter tab; the bounds warning_min and warning_max
\* themselves are Warning.
C20_ClassesPartitionAsLegend ==
    /\ CalledConfigured =>
           LegendClasses(PHYSICAL_PARAMETERS[call.parameter_name], call.value)
               = {call.result}
    /\ \A i \in DOMAIN displayed :
           \A j \in DOMAIN displayed[i].colors :
               LegendClasses(parameters[i].value,
                             parameters[i].value["data"][j])
                   = {displayed[i].colors[j]}

\* The value 5.5 V, which is the warning_max of Voltage, came out Warning,
\* as the legend says, while a Temperature tab was shown.
C20_Witness ==
    /\ CalledConfigured
    /\ call.parameter_name = "Voltage"
    /\ call.value = PHYSICAL_PARAMETERS["Voltage"]["warning_max"]
    /\ call.result = Warning
    /\ LegendClasses(PHYSICAL_PARAMETERS["Voltage"], call.value) = {Warning}
    /\ Len(displayed) = 1
    /\ displayed[1].colors = <<Normal, Normal>>

\* The status text of a class.
StatusTextOf(color) ==
    IF color = Normal THEN "NORMAL"
    ELSE IF color = Warning THEN "WARNING"
    ELSE IF color = Critical THEN "CRITICAL"
    ELSE "none"

\* C21: for every parameter shown after an upload the Current Value is the
\* value of a row of that parameter than which no row of the parameter has
\* a later timestamp, and the status text is the class that
\* get_status_color gives that value for that parameter, which is never
\* the Inactive class.
C21_CurrentValueIsLatest ==
    Imported =>
        \A i \in DOMAIN displayed :
            LET tab == displayed[i]
                rows == uploaded_data.rows
                class == get_status_color(tab.current_value, tab.param)
            IN  /\ tab.param = parameters[i].key
                /\ \E j \in RowsOf(tab.param) :
                       /\ rows[j]["Value"] = tab.current_value
                       /\ \A k \in RowsOf(tab.param) :
                              rows[k]["Timestamp"] <= rows[j]["Timestamp"]
                /\ class \in {Normal, Warning, Critical}
                /\ tab.status_text = StatusTextOf(class)
                /\ tab.status_color = class

\* The Voltage rows 10:05 -> 20.0, 10:00 -> 18.0 and 10:00 -> 20.0 gave
\* the current value 20.0 with the status CRITICAL.
C21_Witness ==
    /\ Imported
    /\ Len(uploaded_data.rows) = 3
    /\ \A j \in 1..3 : uploaded_data.rows[j]["Parameter"] = "Voltage"
    /\ uploaded_data.rows[1]["Timestamp"] = 36300
    /\ uploaded_data.rows[1]["Value"] = 200
    /\ uploaded_data.rows[2]["Timestamp"] = 36000
    /\ uploaded_data.rows[2]["Value"] = 180
    /\ uploaded_data.rows[3]["Timestamp"] = 36000
    /\ Len(displayed) = 1
    /\ displayed[1].current_value = 200
    /\ displayed[1].status_text = "CRITICAL"

\* C22: the import neither loses, duplicates nor moves rows: the keys of
\* the result are distinct, the values of every record are the Value cells
\* of exactly the rows that name its parameter, each row once (a repeated
\* row as often as it occurs), so no record is empty and every tab could
\* read the last element of its data.
C22_ValuesArePermutation ==
    Imported =>
        /\ \A i, j \in DOMAIN parameters :
               i # j => parameters[i].key # parameters[j].key
        /\ \A i \in DOMAIN parameters :
               LET data == parameters[i].value["data"]
                   rows == uploaded_data.rows
               IN  /\ Len(data) = Cardinality(RowsOf(parameters[i].key))
                   /\ Len(data) >= 1
                   /\ \E f \in Arrangements(parameters[i].key, Len(data)) :
                          \A a \in DOMAIN data : data[a] = rows[f[a]]["Value"]
                   /\ "current_value" \in DOMAIN displayed[i]
                   /\ "raised" \notin DOMAIN displayed[i]

\* A file that holds the same Temperature row twice, after a Voltage row,
\* gave a Temperature record with the value twice.
C22_Witness ==
    /\ Imported
    /\ Len(uploaded_data.rows) = 3
    /\ uploaded_data.rows[1]["Parameter"] = "Voltage"
    /\ uploaded_data.rows[2]["Parameter"] = "Temperature"
    /\ uploaded_data.rows[3] = uploaded_data.rows[2]
    /\ Len(parameters) = 2
    /\ DictGet(parameters, "Temperature")["data"] =
           << uploaded_data.rows[2]["Value"], uploaded_data.rows[2]["Value"] >>
    /\ Len(DictGet(parameters, "Voltage")["data"]) = 1

\* A render pass of the main script has drawn the panels.
Rendered == script = MAIN /\ lastOp \in {"main", "toggle"}

\* C23: in every switch state the Communication banner says Offline
\* exactly when Main Power is off, Active exactly when Main Power is on and
\* SOM or EOM is enabled, Standby exactly when Main Power is on and both
\* are disabled; the first pass of a session, with the switches in their
\* initial positions (power on, EOM off, SOM on), says Active.
C23_BannerStatusRule ==
    /\ [](Rendered =>
             LET power == session_state["system_switch"]
                 eom == session_state["eom_switch"]
                 som == session_state["som_switch"]
                 status == dashboard.switches.status
             IN  /\ status \in {"Offline", "Active", "Standby"}
                 /\ status = "Offline" <=> ~power
                 /\ status = "Active" <=> (power /\ (som \/ eom))
                 /\ status = "Standby" <=> (power /\ ~som /\ ~eom))
    /\ [][session_state = EmptyDict =>
            /\ session_state' =
                   [system_switch |-> TRUE, eom_switch |-> FALSE,
                    som_switch |-> TRUE]
            /\ dashboard'.switches.status = "Active"
        ]_vars

\* With Main Power on and SOM switched off as well as EOM, the banner says
\* Standby.
C23_Witness ==
    /\ Rendered
    /\ session_state["system_switch"]
    /\ ~session_state["eom_switch"]
    /\ ~session_state["som_switch"]
    /\ dashboard.switches.status = "Standby"
    /\ dashboard.switches.som_indicator = "INACTIVE"

\* C24: the colour of the Communication banner is determined by its status
\* alone, in every switch state: Active is green, Standby yellow, Offline
\* red.
C24_BannerColourByStatus ==
    Rendered =>
        dashboard.switches.color =
            CASE dashboard.switches.status = "Active" -> "#28a745"
              [] dashboard.switches.status = "Standby" -> "#ffc107"
              [] dashboard.switches.status = "Offline" -> "#dc3545"

\* C25: in every render pass of the main script the sidebar lines agree
\* with the switch panel of the same pass and with the toggles: System is
\* ACTIVE exactly when Main Power shows ONLINE, EOM and SOM are ENABLED
\* exactly when their toggles are on; this holds from the first pass of a
\* session, where SOM and Main Power are on although no key was in the
\* session state when the pass began.
C25_SidebarAgreesWithSwitches ==
    /\ [](Rendered =>
             /\ dashboard.sidebar.system \in {"ACTIVE", "INACTIVE"}
             /\ dashboard.sidebar.eom \in {"ENABLED", "DISABLED"}
             /\ dashboard.sidebar.som \in {"ENABLED", "DISABLED"}
             /\ dashboard.sidebar.system = "ACTIVE"
                    <=> dashboard.switches.system_indicator = "ONLINE"
             /\ dashboard.sidebar.system = "ACTIVE"
                    <=> session_state["system_switch"]
             /\ dashboard.sidebar.eom = "ENABLED"
                    <=> dashboard.switches.eom_indicator = "ACTIVE"
             /\ dashboard.sidebar.eom = "ENABLED"
                    <=> session_state["eom_switch"]
             /\ dashboard.sidebar.som = "ENABLED"
                    <=> dashboard.switches.som_indicator = "ACTIVE"
             /\ dashboard.sidebar.som = "ENABLED"
                    <=> session_state["som_switch"])
    /\ [][session_state = EmptyDict =>
            dashboard'.sidebar =
                [system |-> "ACTIVE", eom |-> "DISABLED", som |-> "ENABLED"]
        ]_vars

\* With EOM switched on and SOM switched off, the sidebar says EOM ENABLED
\* and SOM DISABLED beside the indicators ACTIVE and INACTIVE.
C25_Witness ==
    /\ Rendered
    /\ session_state["system_switch"]
    /\ session_state["eom_switch"]
    /\ ~session_state["som_switch"]
    /\ dashboard.sidebar =
           [system |-> "ACTIVE", eom |-> "ENABLED", som |-> "DISABLED"]
    /\ dashboard.switches.eom_indicator = "ACTIVE"
    /\ dashboard.switches.som_indicator = "INACTIVE"

\* C26: the three copies of the threshold table agree: PHYSICAL_PARAMETERS,
\* ALL_PARAMETER_NORMS and the table written out in the fixed script have
\* the same parameters with the same normal_min, normal_max, warning_min
\* and warning_max, and the class the fixed script gives the current value
\* and every point it draws is the class get_status_color gives that value
\* for that parameter.
C26_DuplicatedTablesAgree ==
    /\ DOMAIN ALL_PARAMETER_NORMS = DOMAIN PHYSICAL_PARAMETERS
    /\ DOMAIN FixedInlineParameters = DOMAIN PHYSICAL_PARAMETERS
    /\ \A n \in DOMAIN PHYSICAL_PARAMETERS : \A k \in THRESHOLD_KEYS :
           /\ ALL_PARAMETER_NORMS[n][k] = PHYSICAL_PARAMETERS[n][k]
           /\ FixedInlineParameters[n][k] = PHYSICAL_PARAMETERS[n][k]
    /\ (script = FIXED /\ lastOp = "fixed") =>
           \A i \in DOMAIN displayed :
               LET tab == displayed[i]
                   data == parameters[i].value["data"]
               IN  /\ tab.status_color =
                          get_status_color(tab.current_value, tab.param)
                   /\ \A j \in DOMAIN data :
                          tab.colors[j] = get_status_color(data[j], tab.param)

\* A pass of the fixed script drew the Humidity value 70.1, just above
\* the warning range, in the Critical colour, as get_status_color gives it.
C26_Witness ==
    /\ script = FIXED
    /\ lastOp = "fixed"
    /\ displayed[3].param = "Humidity"
    /\ \E j \in DOMAIN displayed[3].colors :
           /\ parameters[3].value["data"][j] = 701
           /\ displayed[3].colors[j] = Critical
           /\ get_status_color(701, "Humidity") = Critical
    /\ \E j \in DOMAIN displayed[3].colors :
           /\ parameters[3].value["data"][j] = 700
           /\ displayed[3].colors[j] = Warning

\* The label `a` does not come after the label `b` on the clock.
LabelLe(a, b) == a[1] < b[1] \/ (a[1] = b[1] /\ a[2] <= b[2])

\* C27: within one record of an import, rows with different timestamps
\* have different time labels, so the record has as many distinct labels
\* as its rows have distinct timestamps, and the labels never go back on
\* the clock along the series.
C27_LabelsIdentifyMeasurements ==
    (script = MAIN /\ uploaded_data # None /\ message = "success") =>
        \A i \in DOMAIN parameters :
            LET time_labels == parameters[i].value["time_labels"]
                parsed == to_datetime(uploaded_data).rows
                stamps == {parsed[j]["Timestamp"] :
                              j \in RowsOf(parameters[i].key)}
            IN  /\ Cardinality({time_labels[a] : a \in DOMAIN time_labels})
                       = Cardinality(stamps)
                /\ \A a \in DOMAIN time_labels :
                       a + 1 \in DOMAIN time_labels =>
                           LabelLe(time_labels[a], time_labels[a + 1])

\* C28: in every row generate_ssl_data returns, whatever the row count,
\* the Status Color is the colour status_colors gives the Status of that
\* row, so every badge of the SSL table has the colour of its own text.
C28_StatusColorMatchesStatus ==
    lastOp = "generate_ssl_data" =>
        /\ \A i \in DOMAIN ssl_data :
               ssl_data[i]["StatusColor"] =
                   status_colors[ssl_data[i]["Status"]]
        /\ \A i \in DOMAIN ssl_data :
               status_badges(ssl_data)[i].background =
                   status_colors[status_badges(ssl_data)[i].text]

====
